---- MODULE Spec2Model ----
(***************************************************************************)
(* A model of the markdown structural normalizer of                        *)
(* src/src/markdown_formatter.py (class MarkdownFormatter) and of its      *)
(* batch driver (format_file, format_directory), and of the retry loop of  *)
(* GitHubFetcher._make_request of src/src/github_fetcher.py.               *)
(*                                                                         *)
(* A markdown text is a TLA+ string, i.e. a sequence of characters; the    *)
(* passes of _format_content are operators on strings that follow the      *)
(* Python code line by line (split on newline, loop over the lines, join). *)
(* The pipeline itself is a state machine: one action per statement of     *)
(* _format_content, `pc` being the position inside that method.            *)
(***************************************************************************)
EXTENDS Integers, Sequences, FiniteSets, TLC

VARIABLES
    input,      \* the text handed to the first call of _format_content
    content,    \* the local variable `content` of _format_content
    pc,         \* the statement of _format_content that runs next
    call,       \* 1: the normalization of input, 2: the normalization of its output
    first,      \* the text returned by call 1 (meaningful once call = 2)
    files,      \* batch driver: the file system, path -> content
    before,     \* batch driver: the file system when format_directory was called
    recursive,  \* batch driver: the argument `recursive` of format_directory
    results,    \* batch driver: the dictionary `results` of format_directory
    todo,       \* batch driver: the directories os.walk has still to yield
    pending,    \* batch driver: the files of the current directory not yet looped over
    bpc,        \* batch driver: the position inside format_directory / format_file
    cur,        \* batch driver: the locals of the running format_file call
    failed,     \* batch driver, history: the paths whose format_file call hit an exception
    retries,        \* _make_request: the argument `retries`
    token,          \* _make_request: whether self.token is set
    retry_count,    \* _make_request: the local retry_count
    response,       \* _make_request: the local response ("unbound" before the first assignment)
    rpc,            \* _make_request: the position inside the method
    requests_sent   \* _make_request, history: the number of calls of requests.get

vars == <<input, content, pc, call, first, files, before, recursive, results, todo, pending, bpc, cur, failed,
          retries, token, retry_count, response, rpc, requests_sent>>
fmtVars == <<input, content, pc, call, first>>
batchVars == <<files, before, recursive, results, todo, pending, bpc, cur, failed>>
fetchVars == <<retries, token, retry_count, response, rpc, requests_sent>>

----------------------------------------------------------------------------
(* Characters and Python's string primitives.                              *)

\* The lexer of the TLA+ tools does not accept a backquote inside a string
\* literal, so the model writes the backquote character as BT everywhere.
\* No pass of the formatter treats the stand-in character specially.
BT == "~"
FENCE == BT \o BT \o BT

\* str.strip() / str.rstrip() / regex \s
WhiteSpace == {" ", "\t", "\n", "\r", "\f"}

Char(s, i) == SubSeq(s, i, i)

\* s[k:] and s[:k] of Python (k >= 0)
From(s, k) == SubSeq(s, k + 1, Len(s))
Upto(s, k) == SubSeq(s, 1, k)

\* s.startswith(p), s.endswith(p)
StartsWith(s, p) == Len(s) >= Len(p) /\ SubSeq(s, 1, Len(p)) = p
EndsWith(s, p) == Len(s) >= Len(p) /\ SubSeq(s, Len(s) - Len(p) + 1, Len(s)) = p

\* p in s
Contains(s, p) == \E i \in 1..(Len(s) - Len(p) + 1) : SubSeq(s, i, i + Len(p) - 1) = p

\* s.find(p, start): the lowest 1-based index >= start where p occurs, 0 when none
Find(s, p, start) ==
    LET hits == {i \in start..(Len(s) - Len(p) + 1) : SubSeq(s, i, i + Len(p) - 1) = p}
    IN  IF hits = {} THEN 0 ELSE CHOOSE i \in hits : \A j \in hits : i <= j

\* the number of characters of s, counted from s[i] on, up to the first one
\* that is not in the set cs
RunLen(s, i, cs) ==
    LET stops == {k \in i..Len(s) : Char(s, k) \notin cs}
    IN  IF i > Len(s) THEN 0
        ELSE IF stops = {} THEN Len(s) - i + 1
        ELSE (CHOOSE k \in stops : \A j \in stops : k <= j) - i

\* the same count taken backwards from the end of s
RunLenBack(s, cs) ==
    LET stops == {k \in 1..Len(s) : Char(s, k) \notin cs}
    IN  IF stops = {} THEN Len(s)
        ELSE Len(s) - (CHOOSE k \in stops : \A j \in stops : j <= k)

RStrip(s) == Upto(s, Len(s) - RunLenBack(s, WhiteSpace))

LStrip(s) == From(s, RunLen(s, 1, WhiteSpace))

Strip(s) == LStrip(RStrip(s))

\* s.rstrip('\n'), s.strip('`')
RStripChar(s, c) == Upto(s, Len(s) - RunLenBack(s, {c}))

LStripChar(s, c) == From(s, RunLen(s, 1, {c}))

StripChar(s, c) == LStripChar(RStripChar(s, c), c)

UpperCase == "ABCDEFGHIJKLMNOPQRSTUVWXYZ"
LowerCase == "abcdefghijklmnopqrstuvwxyz"

LowerChar(c) ==
    LET k == Find(UpperCase, c, 1) IN IF k = 0 THEN c ELSE Char(LowerCase, k)

\* s.lower(), character by character, the two halves of s converted apart
RECURSIVE Lower(_)
Lower(s) ==
    IF s = "" THEN ""
    ELSE IF Len(s) = 1 THEN LowerChar(s)
    ELSE Lower(Upto(s, Len(s) \div 2)) \o Lower(From(s, Len(s) \div 2))

\* content.split('\n'): never empty, "" gives <<"">>; the line that starts at
\* s[start] ends before the first newline at or behind s[i]
RECURSIVE SplitAcc(_, _, _, _)
SplitAcc(s, i, start, acc) ==
    LET nl == Find(s, "\n", i) IN
    IF nl = 0 THEN Append(acc, SubSeq(s, start, Len(s)))
    ELSE SplitAcc(s, nl + 1, nl + 1, Append(acc, SubSeq(s, start, nl - 1)))

Split(s) == SplitAcc(s, 1, 1, <<>>)

\* '\n'.join(lines)
RECURSIVE Join(_)
Join(lines) ==
    IF lines = <<>> THEN ""
    ELSE IF Len(lines) = 1 THEN lines[1]
    ELSE LET h == Len(lines) \div 2
         IN  Join(SubSeq(lines, 1, h)) \o "\n" \o Join(SubSeq(lines, h + 1, Len(lines)))

\* '#' * n
RECURSIVE Hashes(_)
Hashes(n) == IF n <= 0 THEN "" ELSE "#" \o Hashes(n - 1)

\* the loop "for char in line: if char == '#': level += 1 else: break"
HashRun(line) == RunLen(line, 1, {"#"})

\* the number of leading whitespace characters of a line (regex ^\s*)
SpaceRun(line) == RunLen(line, 1, WhiteSpace)

\* result[-1].strip() != '' and its like: the line has a non-whitespace character
NonBlank(line) == Strip(line) # ""

----------------------------------------------------------------------------
(* The passes of _format_content.                                          *)

\* _fix_multiple_h1: the loop over the lines, h1_found and result its locals
RECURSIVE MultipleH1Loop(_, _, _, _)
MultipleH1Loop(lines, i, h1_found, result) ==
    IF i > Len(lines) THEN result
    ELSE LET line == lines[i] IN
         IF StartsWith(line, "# ")
         THEN IF h1_found
              THEN MultipleH1Loop(lines, i + 1, TRUE, Append(result, "## " \o From(line, 2)))
              ELSE MultipleH1Loop(lines, i + 1, TRUE, Append(result, line))
         ELSE MultipleH1Loop(lines, i + 1, h1_found, Append(result, line))

_fix_multiple_h1(text) == Join(MultipleH1Loop(Split(text), 1, FALSE, <<>>))

\* _fix_heading_increment: a clamped heading does not update current_level
RECURSIVE HeadingIncrementLoop(_, _, _, _)
HeadingIncrementLoop(lines, i, current_level, result) ==
    IF i > Len(lines) THEN result
    ELSE LET line == lines[i]
             level == HashRun(line)
         IN  IF StartsWith(line, "#")
             THEN IF level > current_level + 1 /\ current_level > 0
                  THEN HeadingIncrementLoop(lines, i + 1, current_level,
                           Append(result, Hashes(current_level + 1) \o From(line, level)))
                  ELSE HeadingIncrementLoop(lines, i + 1, level, Append(result, line))
             ELSE HeadingIncrementLoop(lines, i + 1, current_level, Append(result, line))

_fix_heading_increment(text) == Join(HeadingIncrementLoop(Split(text), 1, 0, <<>>))

\* "line.startswith('#') and ' ' in line": what the spacing, punctuation and
\* duplicate passes take for a heading
IsHeadingLine(line) == StartsWith(line, "#") /\ Contains(line, " ")

\* _fix_heading_spacing: the neighbours are read from the input lines
RECURSIVE HeadingSpacingLoop(_, _, _)
HeadingSpacingLoop(lines, i, result) ==
    IF i > Len(lines) THEN result
    ELSE LET line == lines[i]
             pre == IF i > 1 /\ NonBlank(lines[i - 1]) THEN <<"">> ELSE <<>>
             post == IF i < Len(lines) /\ NonBlank(lines[i + 1]) THEN <<"">> ELSE <<>>
         IN  IF IsHeadingLine(line)
             THEN HeadingSpacingLoop(lines, i + 1, result \o pre \o <<line>> \o post)
             ELSE HeadingSpacingLoop(lines, i + 1, Append(result, line))

_fix_heading_spacing(text) == Join(HeadingSpacingLoop(Split(text), 1, <<>>))

\* re.match(r'^(\s*)[*+-](\s+)', line)
IsUnorderedItem(line) ==
    LET k == SpaceRun(line)
    IN  /\ Len(line) >= k + 2
        /\ Char(line, k + 1) \in {"*", "+", "-"}
        /\ Char(line, k + 2) \in WhiteSpace

Digits == {"0", "1", "2", "3", "4", "5", "6", "7", "8", "9"}

DigitRun(s) == RunLen(s, 1, Digits)

\* re.match(r'^(\s*)\d+\.(\s+)', line)
IsOrderedItem(line) ==
    LET k == SpaceRun(line)
        d == DigitRun(From(line, k))
    IN  /\ d >= 1
        /\ Len(line) >= k + d + 2
        /\ Char(line, k + d + 1) = "."
        /\ Char(line, k + d + 2) \in WhiteSpace

IsListItem(line) == IsUnorderedItem(line) \/ IsOrderedItem(line)

\* _fix_list_spacing: in_list is cleared by a blank line only
RECURSIVE ListSpacingLoop(_, _, _, _)
ListSpacingLoop(lines, i, in_list, result) ==
    IF i > Len(lines) THEN result
    ELSE LET line == lines[i]
             is_list_item == IsListItem(line)
         IN  IF is_list_item /\ ~in_list
             THEN ListSpacingLoop(lines, i + 1, TRUE,
                      IF i > 1 /\ result # <<>> /\ NonBlank(result[Len(result)])
                      THEN result \o <<"", line>> ELSE Append(result, line))
             ELSE IF ~is_list_item /\ in_list /\ ~NonBlank(line)
             THEN ListSpacingLoop(lines, i + 1, FALSE,
                      IF i < Len(lines) /\ NonBlank(lines[i + 1])
                      THEN result \o <<"", line>> ELSE Append(result, line))
             ELSE ListSpacingLoop(lines, i + 1, in_list, Append(result, line))

_fix_list_spacing(text) == Join(ListSpacingLoop(Split(text), 1, FALSE, <<>>))

\* re.match(r'^\|.*\|$', line) on a line without newline
IsTableRow(line) == Len(line) >= 2 /\ StartsWith(line, "|") /\ EndsWith(line, "|")

\* re.match(r'^[\|\-:\s]+$', line)
IsSeparator(line) ==
    /\ Len(line) >= 1
    /\ \A i \in 1..Len(line) : Char(line, i) \in ({"|", "-", ":"} \cup WhiteSpace)

\* _fix_table_spacing
RECURSIVE TableSpacingLoop(_, _, _, _)
TableSpacingLoop(lines, i, in_table, result) ==
    IF i > Len(lines) THEN result
    ELSE LET line == lines[i]
             is_row == IsTableRow(line) \/ IsSeparator(line)
         IN  IF is_row /\ ~in_table
             THEN TableSpacingLoop(lines, i + 1, TRUE,
                      IF i > 1 /\ result # <<>> /\ NonBlank(result[Len(result)])
                      THEN result \o <<"", line>> ELSE Append(result, line))
             ELSE IF in_table /\ ~is_row
             THEN TableSpacingLoop(lines, i + 1, FALSE,
                      IF NonBlank(line) THEN result \o <<"", line>> ELSE Append(result, line))
             ELSE TableSpacingLoop(lines, i + 1, in_table, Append(result, line))

_fix_table_spacing(text) == Join(TableSpacingLoop(Split(text), 1, FALSE, <<>>))

\* _fix_trailing_whitespace
_fix_trailing_whitespace(text) ==
    LET lines == Split(text) IN Join([i \in 1..Len(lines) |-> RStrip(lines[i])])

Punctuation == {".", ",", ";", ":", "!", "?"}

\* the body of the loop of _fix_heading_punctuation;
\* heading_text = line.split(' ', 1)[1] is what follows the first space
HeadingPunctuationLine(line) ==
    IF IsHeadingLine(line)
    THEN LET heading_text == From(line, Find(line, " ", 1))
         IN  IF heading_text # "" /\ Char(heading_text, Len(heading_text)) \in Punctuation
             THEN Upto(line, Len(line) - 1)
             ELSE line
    ELSE line

_fix_heading_punctuation(text) ==
    LET lines == Split(text) IN Join([i \in 1..Len(lines) |-> HeadingPunctuationLine(lines[i])])

\* the length of the match of (?<!\(|\[)https?://[^\s)>]+ that starts at s[i], 0 when none
UrlStop == WhiteSpace \cup {")", ">"}

UrlRun(s, i) ==
    LET stops == {k \in i..Len(s) : Char(s, k) \in UrlStop}
    IN  IF i > Len(s) THEN 0
        ELSE IF stops = {} THEN Len(s) - i + 1
        ELSE (CHOOSE k \in stops : \A j \in stops : k <= j) - i

LitAt(s, i, p) == i >= 1 /\ i + Len(p) - 1 <= Len(s) /\ SubSeq(s, i, i + Len(p) - 1) = p

UrlMatchLen(s, i) ==
    LET scheme == IF LitAt(s, i, "https://") THEN 8 ELSE IF LitAt(s, i, "http://") THEN 7 ELSE 0
        run == UrlRun(s, i + scheme)
    IN  IF scheme > 0 /\ run > 0 /\ (i = 1 \/ Char(s, i - 1) \notin {"(", "["})
        THEN scheme + run ELSE 0

\* re.sub over the whole text, matches taken left to right without overlap;
\* a match can start only where "http" stands, the text in between is copied
RECURSIVE BareUrlsScan(_, _, _)
BareUrlsScan(s, i, acc) ==
    LET h == Find(s, "http", i) IN
    IF h = 0 THEN acc \o SubSeq(s, i, Len(s))
    ELSE LET n == UrlMatchLen(s, h)
             m == SubSeq(s, h, h + n - 1)
         IN  IF n > 0
             THEN BareUrlsScan(s, h + n,
                      acc \o SubSeq(s, i, h - 1) \o "[" \o m \o "](" \o m \o ")")
             ELSE BareUrlsScan(s, h + 1, acc \o SubSeq(s, i, h))

_fix_bare_urls(text) == BareUrlsScan(text, 1, "")

\* _fix_code_block_spacing
RECURSIVE CodeBlockSpacingLoop(_, _, _, _)
CodeBlockSpacingLoop(lines, i, in_code_block, result) ==
    IF i > Len(lines) THEN result
    ELSE LET line == lines[i] IN
         IF StartsWith(line, FENCE) /\ ~in_code_block
         THEN CodeBlockSpacingLoop(lines, i + 1, TRUE,
                  IF i > 1 /\ result # <<>> /\ NonBlank(result[Len(result)])
                  THEN result \o <<"", line>> ELSE Append(result, line))
         ELSE IF Strip(line) = FENCE /\ in_code_block
         THEN CodeBlockSpacingLoop(lines, i + 1, FALSE,
                  IF i < Len(lines) /\ NonBlank(lines[i + 1])
                  THEN result \o <<line, "">> ELSE Append(result, line))
         ELSE CodeBlockSpacingLoop(lines, i + 1, in_code_block, Append(result, line))

_fix_code_block_spacing(text) == Join(CodeBlockSpacingLoop(Split(text), 1, FALSE, <<>>))

----------------------------------------------------------------------------
(* _fix_code_block_language and its regular expressions.                   *)

\* regex \w
IsWordChar(c) == c \in Digits \/ c = "_" \/ Contains(UpperCase, c) \/ Contains(LowerCase, c)

IsWordAt(s, i) == i >= 1 /\ i <= Len(s) /\ IsWordChar(Char(s, i))

\* regex \b between s[i-1] and s[i]
WordBoundary(s, i) == IsWordAt(s, i - 1) # IsWordAt(s, i)

\* \bp\b at s[i]
WordLit(s, i, p) == LitAt(s, i, p) /\ WordBoundary(s, i) /\ WordBoundary(s, i + Len(p))

\* no newline in s[a..b]: what a regex .* can cross
SameLine(s, a, b) == \A k \in a..b : Char(s, k) # "\n"

\* .*p1.*p2... matched from s[a] on
RECURSIVE ChainFrom(_, _, _)
ChainFrom(s, a, pats) ==
    IF pats = <<>> THEN TRUE
    ELSE \E j \in a..(Len(s) - Len(pats[1]) + 1) :
            /\ LitAt(s, j, pats[1])
            /\ SameLine(s, a, j - 1)
            /\ ChainFrom(s, j + Len(pats[1]), Tail(pats))

\* re.search of \bw\b followed by .*p1.*p2...
SearchWordChain(s, w, pats) ==
    \E i \in 1..Len(s) : WordLit(s, i, w) /\ ChainFrom(s, i + Len(w), pats)

\* re.search of the literal p followed by .*p1.*p2...
SearchLitChain(s, p, pats) ==
    \E i \in 1..Len(s) : LitAt(s, i, p) /\ ChainFrom(s, i + Len(p), pats)

\* re.search of \bp (a word boundary in front only)
SearchWordStart(s, p) == \E i \in 1..Len(s) : LitAt(s, i, p) /\ WordBoundary(s, i)

LooksPython(s) == SearchWordChain(s, "def", <<":">>) \/ SearchWordChain(s, "class", <<":">>)

LooksJavascript(s) ==
    \/ SearchWordChain(s, "function", <<"{">>)
    \/ SearchWordChain(s, "const", <<>>)
    \/ SearchWordChain(s, "let", <<>>)
    \/ SearchWordChain(s, "var", <<>>)
    \/ Contains(s, "=>")
    \/ Contains(s, "$(")

LooksHtml(s) ==
    \/ SearchLitChain(s, "<", <<">", "</", ">">>)
    \/ SearchLitChain(s, "<", <<"/>">>)
    \/ Contains(s, "<!DOCTYPE")

LooksCss(s) ==
    \/ SearchWordChain(s, "body", <<"{">>)
    \/ SearchWordStart(s, "margin:")
    \/ SearchWordStart(s, "padding:")
    \/ SearchWordStart(s, "color:")

\* re.IGNORECASE
LooksSql(s) ==
    \E w \in {"select", "from", "where", "join"} : SearchWordChain(Lower(s), w, <<>>)

LooksJava(s) ==
    \/ SearchWordChain(s, "package", <<>>)
    \/ SearchWordChain(s, "import", <<";">>)
    \/ SearchWordChain(s, "public", <<"class">>)

LooksCpp(s) == Contains(s, "#include") \/ Contains(s, "int main(") \/ Contains(s, "std::")

LooksBash(s) ==
    \E w \in {"git", "apt-get", "npm", "yarn", "pip"} : SearchWordChain(s, w, <<>>)

LooksJson(s) == SearchLitChain(s, "{", <<":", "}">>) \/ SearchLitChain(s, "[", <<"]">>)

determine_language(code_block) ==
    LET code_content == Strip(code_block)
    IN  IF LooksPython(code_content) THEN "python"
        ELSE IF LooksJavascript(code_content) THEN "javascript"
        ELSE IF LooksHtml(code_content) THEN "html"
        ELSE IF LooksCss(code_content) THEN "css"
        ELSE IF LooksSql(code_content) THEN "sql"
        ELSE IF LooksJava(code_content) THEN "java"
        ELSE IF LooksCpp(code_content) THEN "cpp"
        ELSE IF LooksBash(code_content) THEN "bash"
        ELSE IF LooksJson(code_content) THEN "json"
        ELSE "text"

WordRun(s, i) ==
    LET stops == {k \in i..Len(s) : ~IsWordChar(Char(s, k))}
    IN  IF i > Len(s) THEN 0
        ELSE IF stops = {} THEN Len(s) - i + 1
        ELSE (CHOOSE k \in stops : \A j \in stops : k <= j) - i

SpaceRunAt(s, i) == RunLen(s, i, WhiteSpace)

\* the index of the last character of the match of ```(?:\w+)?\s*\n[\s\S]*?``` that
\* starts at s[i], 0 when there is none: the fence, a run of word characters, a run
\* of whitespace that holds a newline, and the first fence after that run
FenceMatchEnd(s, i) ==
    IF ~LitAt(s, i, FENCE) THEN 0
    ELSE LET w == WordRun(s, i + 3)
             sp == SpaceRunAt(s, i + 3 + w)
             close == Find(s, FENCE, i + 3 + w + sp)
         IN  IF Contains(SubSeq(s, i + 3 + w, i + 2 + w + sp), "\n") /\ close # 0
             THEN close + 2 ELSE 0

\* re.split(r'(```(?:\w+)?\s*\n[\s\S]*?```)', content): the texts between the
\* matches alternate with the matches
RECURSIVE FenceSplit(_, _, _, _)
FenceSplit(s, i, start, parts) ==
    LET f == Find(s, FENCE, i) IN
    IF f = 0 THEN Append(parts, SubSeq(s, start, Len(s)))
    ELSE LET e == FenceMatchEnd(s, f) IN
         IF e # 0
         THEN FenceSplit(s, e + 1, e + 1, parts \o <<SubSeq(s, start, f - 1), SubSeq(s, f, e)>>)
         ELSE FenceSplit(s, f + 1, start, parts)

\* re.match(r'```\s*\n', part)
NoLanguageHeader(part) ==
    LitAt(part, 1, FENCE) /\ Contains(SubSeq(part, 4, 3 + SpaceRunAt(part, 4)), "\n")

\* the body of the while loop with the code joined to the opening fence:
\* code_content taken from behind the first newline of the part
CodeBlockLanguagePartJoined(part) ==
    IF StartsWith(part, FENCE) /\ NoLanguageHeader(part)
    THEN LET code_end == Find(part, FENCE, 4) IN
         IF code_end # 0
         THEN LET code_content == SubSeq(part, Find(part, "\n", 4) + 1, code_end - 1)
              IN  FENCE \o determine_language(code_content) \o code_content \o FENCE
         ELSE part
    ELSE part

\* the body of the while loop of _fix_code_block_language; code_content starts
\* at the first newline of the part, newline included
CodeBlockLanguagePart(part) ==
    IF StartsWith(part, FENCE) /\ NoLanguageHeader(part)
    THEN LET code_end == Find(part, FENCE, 4) IN
         IF code_end # 0
         THEN LET code_content == SubSeq(part, Find(part, "\n", 4), code_end - 1)
              IN  FENCE \o determine_language(code_content) \o "\n" \o code_content \o FENCE
         ELSE part
    ELSE part

RECURSIVE Concat(_)
Concat(parts) ==
    IF parts = <<>> THEN ""
    ELSE IF Len(parts) = 1 THEN parts[1]
    ELSE LET h == Len(parts) \div 2
         IN  Concat(SubSeq(parts, 1, h)) \o Concat(SubSeq(parts, h + 1, Len(parts)))

_fix_code_block_language(text) ==
    LET parts == FenceSplit(text, 1, 1, <<>>)
    IN  Concat([k \in 1..Len(parts) |-> CodeBlockLanguagePart(parts[k])])

\* _fix_multiple_blank_lines: re.sub(r'\n{3,}', '\n\n', content)
NewlineRun(s, i) == RunLen(s, i, {"\n"})

\* the scan goes from one run of three or more newlines to the next, the text
\* in between is copied
RECURSIVE BlankLinesScan(_, _, _)
BlankLinesScan(s, i, acc) ==
    LET r == Find(s, "\n\n\n", i) IN
    IF r = 0 THEN acc \o SubSeq(s, i, Len(s))
    ELSE BlankLinesScan(s, r + NewlineRun(s, r), acc \o SubSeq(s, i, r - 1) \o "\n\n")

\* _fix_multiple_blank_lines with '\n' for its replacement text: a run of
\* three or more newlines is rewritten to a single newline
RECURSIVE BlankLinesScanSingle(_, _, _)
BlankLinesScanSingle(s, i, acc) ==
    LET r == Find(s, "\n\n\n", i) IN
    IF r = 0 THEN acc \o SubSeq(s, i, Len(s))
    ELSE BlankLinesScanSingle(s, r + NewlineRun(s, r), acc \o SubSeq(s, i, r - 1) \o "\n")

CollapseToSingleNewline(text) == BlankLinesScanSingle(text, 1, "")

_fix_multiple_blank_lines(text) == BlankLinesScan(text, 1, "")

\* EnsureFinalNewline without its elif branch: a newline is appended when
\* missing, a run of trailing newlines is kept
EnsureFinalNewlineAppendOnly(text) ==
    IF ~EndsWith(text, "\n") THEN text \o "\n" ELSE text

\* the last statement of _format_content: "Ensure file ends with a single newline"
EnsureFinalNewline(text) ==
    IF ~EndsWith(text, "\n") THEN text \o "\n"
    ELSE IF EndsWith(text, "\n\n") THEN RStripChar(text, "\n") \o "\n"
    ELSE text

----------------------------------------------------------------------------
(* _fix_duplicate_headings.                                                *)

\* Python's None and a string value: <<>> is None, <<s>> is the string s
None == <<>>
Some(s) == <<s>>

\* "if x:" for x None or a string
Truthy(o) == o # None /\ o[1] # ""

\* s.split(sep)[1] for a text s that holds sep: what lies between the first
\* occurrence of sep and the next one
SplitSecond(s, sep) ==
    LET rest == From(s, Find(s, sep, 1) + Len(sep) - 1)
        nxt == Find(rest, sep, 1)
    IN  IF nxt = 0 THEN rest ELSE Upto(rest, nxt - 1)

\* the name taken from a "Function:" / "Class:" subsection title
EntityName(current_subsection) ==
    IF Contains(current_subsection, "Function:")
    THEN StripChar(Strip(SplitSecond(current_subsection, "Function:")), BT)
    ELSE StripChar(Strip(SplitSecond(current_subsection, "Class:")), BT)

\* the locals of the first pass before its loop
NoContext ==
    [document_title |-> None, section_titles |-> <<>>, current_section |-> None,
     current_subsection |-> None, current_function |-> None,
     heading_hierarchy |-> <<>>]

\* first pass: the context of the document; heading_hierarchy gets an entry for
\* the lines that start with '#### ' only
RECURSIVE ContextLoop(_, _, _)
ContextLoop(lines, i, c) ==
    IF i > Len(lines) THEN c
    ELSE LET line == lines[i] IN
         IF StartsWith(line, "# ")
         THEN ContextLoop(lines, i + 1,
                  [c EXCEPT !.document_title = Some(Strip(From(line, 2))),
                            !.current_section = None,
                            !.current_subsection = None,
                            !.current_function = None])
         ELSE IF StartsWith(line, "## ")
         THEN ContextLoop(lines, i + 1,
                  [c EXCEPT !.current_section = Some(Strip(From(line, 3))),
                            !.section_titles = Append(@, Strip(From(line, 3))),
                            !.current_subsection = None,
                            !.current_function = None])
         ELSE IF StartsWith(line, "### ")
         THEN LET sub == Strip(From(line, 4)) IN
              ContextLoop(lines, i + 1,
                  [c EXCEPT !.current_subsection = Some(sub),
                            !.current_function =
                                IF Contains(sub, "Function:") \/ Contains(sub, "Class:")
                                THEN Some(EntityName(sub)) ELSE None])
         ELSE IF StartsWith(line, "#### ")
         THEN ContextLoop(lines, i + 1,
                  [c EXCEPT !.heading_hierarchy =
                      [k \in DOMAIN @ \cup {i} |->
                          IF k = i
                          THEN <<c.current_section, c.current_subsection, c.current_function>>
                          ELSE @[k]]])
         ELSE ContextLoop(lines, i + 1, c)

ExampleLabels == {"example", "examples"}
TitleLabels == {"usage", "overview", "modules", "dependencies"}
ParameterLabels == {"import path", "parameters", "returns", "example usage"}

\* the line emitted for a heading whose text has been seen before (the branches
\* below "if heading_text in heading_texts", the title test excluded)
DuplicateLine(line, i, heading_level, heading_text, count, c) ==
    LET numbered == Hashes(heading_level) \o " " \o heading_text \o " " \o ToString(count)
        emit(t) == Hashes(heading_level) \o " " \o t
        low == Lower(heading_text)
    IN  IF low = Lower(c.document_title[1])
        THEN emit("About " \o heading_text)
        ELSE IF low \in ExampleLabels
        THEN IF i \in DOMAIN c.heading_hierarchy
             THEN LET h == c.heading_hierarchy[i] IN
                  IF Truthy(h[3]) THEN emit("Example: " \o h[3][1])
                  ELSE IF Truthy(h[2]) THEN emit("Example: " \o h[2][1])
                  ELSE IF Truthy(h[1]) THEN emit("Example: " \o h[1][1])
                  ELSE numbered
             ELSE numbered
        ELSE IF low \in TitleLabels
        THEN IF heading_level = 1 THEN line ELSE emit("Detailed " \o heading_text)
        ELSE IF low \in ParameterLabels
        THEN IF i \in DOMAIN c.heading_hierarchy
             THEN LET h == c.heading_hierarchy[i] IN
                  IF Truthy(h[2]) THEN emit(heading_text \o " (" \o h[2][1] \o ")")
                  ELSE numbered
             ELSE numbered
        ELSE IF Len(c.section_titles) > 0 /\ count <= Len(c.section_titles)
        THEN emit(heading_text \o " (" \o c.section_titles[count] \o ")")
        ELSE numbered

\* ClampLevel without the clamp: the heading keeps its nominal level
ClampLevelNone(nominal, prev_heading_level) == nominal

\* "Fix heading increment issues (MD001)" of the second pass
ClampLevel(nominal, prev_heading_level) ==
    IF nominal > prev_heading_level + 1 /\ prev_heading_level > 0
    THEN prev_heading_level + 1 ELSE nominal

\* second pass; the result is [raised |-> TRUE] when document_title.lower() is
\* evaluated with document_title None (AttributeError), the lines otherwise
RECURSIVE DuplicateLoop(_, _, _, _, _, _)
DuplicateLoop(lines, i, c, prev_heading_level, heading_texts, result) ==
    IF i > Len(lines) THEN [raised |-> FALSE, lines |-> result]
    ELSE LET line == lines[i] IN
         IF IsHeadingLine(line)
         THEN LET nominal == HashRun(line)
                  heading_text == Strip(From(line, nominal))
                  heading_level == ClampLevel(nominal, prev_heading_level)
              IN  IF heading_text \in DOMAIN heading_texts
                  THEN LET count == heading_texts[heading_text] + 1 IN
                       IF c.document_title = None
                       THEN [raised |-> TRUE]
                       ELSE DuplicateLoop(lines, i + 1, c, heading_level,
                                [heading_texts EXCEPT ![heading_text] = count],
                                Append(result,
                                    DuplicateLine(line, i, heading_level, heading_text, count, c)))
                  ELSE DuplicateLoop(lines, i + 1, c, heading_level,
                           [t \in DOMAIN heading_texts \cup {heading_text} |->
                               IF t = heading_text THEN 1 ELSE heading_texts[t]],
                           Append(result, Hashes(heading_level) \o " " \o heading_text))
         ELSE DuplicateLoop(lines, i + 1, c, prev_heading_level, heading_texts,
                  Append(result, line))

\* _fix_duplicate_headings as a whole: [raised, text]
DuplicateHeadings(text) ==
    LET lines == Split(text)
        r == DuplicateLoop(lines, 1, ContextLoop(lines, 1, NoContext), 0, <<>>, <<>>)
    IN  IF r.raised THEN [raised |-> TRUE, text |-> text]
        ELSE [raised |-> FALSE, text |-> Join(r.lines)]

_fix_duplicate_headings(text) == DuplicateHeadings(text).text

----------------------------------------------------------------------------
(* _format_content as a state machine: one action per statement.           *)

\* the number of lines of an input text
MaxLines == 3

\* the lines the input texts are made of: blank, plain text, headings of
\* levels 1 to 3, '#' not followed by a space (with and without a space
\* later in the line), and a code fence
LineVocab == {"", "x", "# a", "## a", "### b", "##", "#b c", FENCE}

\* the texts of 1 to n lines taken from vocab
TextsUpTo(vocab, n) ==
    UNION {{Join(ls) : ls \in [1..k -> vocab]} : k \in 1..n}

TextsOver(vocab) == TextsUpTo(vocab, MaxLines)

\* the batch driver at rest (its variables when only _format_content runs)
BatchIdle ==
    /\ files = <<>> /\ before = <<>> /\ recursive = TRUE /\ results = <<>>
    /\ todo = <<>> /\ pending = {} /\ bpc = "idle" /\ cur = <<>> /\ failed = {}

\* _make_request at rest (its variables when it is not called)
FetchIdle ==
    /\ retries = 0 /\ token = FALSE /\ retry_count = 0 /\ response = "unbound"
    /\ rpc = "idle" /\ requests_sent = 0

\* _format_content holds one of texts in `content` and is at statement here
InitAt(texts, here) ==
    /\ input \in texts
    /\ content = input
    /\ pc = here
    /\ call = 1
    /\ first = ""
    /\ BatchIdle
    /\ FetchIdle

\* _format_content is called with one of texts
InitWith(texts) == InitAt(texts, "multiple_h1")

InitOver(vocab) == InitWith(TextsOver(vocab))

Init == InitOver(LineVocab)

\* the assignment of a statement "content = self._fix_xxx(content)"
Advance(next, new) ==
    /\ content' = new
    /\ pc' = next
    /\ UNCHANGED <<input, call, first>>
    /\ UNCHANGED batchVars
    /\ UNCHANGED fetchVars

FixMultipleH1 ==
    /\ pc = "multiple_h1"
    /\ Advance("heading_increment", _fix_multiple_h1(content))

\* _format_content with _fix_duplicate_headings called right after
\* _fix_heading_increment
FixHeadingIncrementThenDuplicates ==
    /\ pc = "heading_increment"
    /\ Advance("duplicate_headings", _fix_heading_increment(content))

FixHeadingIncrement ==
    /\ pc = "heading_increment"
    /\ Advance("heading_spacing", _fix_heading_increment(content))

FixHeadingSpacing ==
    /\ pc = "heading_spacing"
    /\ Advance("list_spacing", _fix_heading_spacing(content))

FixListSpacing ==
    /\ pc = "list_spacing"
    /\ Advance("table_spacing", _fix_list_spacing(content))

FixTableSpacing ==
    /\ pc = "table_spacing"
    /\ Advance("trailing_whitespace", _fix_table_spacing(content))

FixTrailingWhitespace ==
    /\ pc = "trailing_whitespace"
    /\ Advance("heading_punctuation", _fix_trailing_whitespace(content))

FixHeadingPunctuation ==
    /\ pc = "heading_punctuation"
    /\ Advance("bare_urls", _fix_heading_punctuation(content))

FixBareUrls ==
    /\ pc = "bare_urls"
    /\ Advance("code_block_spacing", _fix_bare_urls(content))

FixCodeBlockSpacing ==
    /\ pc = "code_block_spacing"
    /\ Advance("code_block_language", _fix_code_block_spacing(content))

FixCodeBlockLanguage ==
    /\ pc = "code_block_language"
    /\ Advance("duplicate_headings", _fix_code_block_language(content))

FixDuplicateHeadings ==
    /\ pc = "duplicate_headings"
    /\ ~DuplicateHeadings(content).raised
    /\ Advance("multiple_blank_lines", _fix_duplicate_headings(content))

\* the AttributeError of _fix_duplicate_headings leaves _format_content: no text is returned
FixDuplicateHeadingsRaises ==
    /\ pc = "duplicate_headings"
    /\ DuplicateHeadings(content).raised
    /\ Advance("raised", content)

FixMultipleBlankLines ==
    /\ pc = "multiple_blank_lines"
    /\ Advance("final_newline", _fix_multiple_blank_lines(content))

FixFinalNewline ==
    /\ pc = "final_newline"
    /\ Advance("done", EnsureFinalNewline(content))

\* the returned text is normalized again (format_file run on the file it has
\* just written): normalize(normalize(T))
Renormalize ==
    /\ pc = "done"
    /\ call = 1
    /\ first' = content
    /\ call' = 2
    /\ pc' = "multiple_h1"
    /\ UNCHANGED <<input, content>>
    /\ UNCHANGED batchVars
    /\ UNCHANGED fetchVars

FormatNext ==
    \/ FixMultipleH1
    \/ FixHeadingIncrement
    \/ FixHeadingSpacing
    \/ FixListSpacing
    \/ FixTableSpacing
    \/ FixTrailingWhitespace
    \/ FixHeadingPunctuation
    \/ FixBareUrls
    \/ FixCodeBlockSpacing
    \/ FixCodeBlockLanguage
    \/ FixDuplicateHeadings
    \/ FixDuplicateHeadingsRaises
    \/ FixMultipleBlankLines
    \/ FixFinalNewline
    \/ Renormalize

Spec == Init /\ [][FormatNext]_vars

\* _format_content on texts with fenced code blocks: plain text, a fence
\* without and with a language tag, a fence followed by two words, a heading
\* and a URL; one line more than MaxLines, so that a closed block can be
\* followed by a fence and a line of text
FenceVocab == {"x", FENCE, FENCE \o "py", FENCE \o "x y", "## a", "http://u"}

InitFences == InitWith(TextsUpTo(FenceVocab, MaxLines + 1))

SpecFences == InitFences /\ [][FormatNext]_vars

\* _format_content on texts with lists and tables: a blank line, plain text,
\* an unordered and an ordered list item, a table row without and with a
\* trailing space, a heading, and a heading that is punctuation only
BlockVocab == {"", "x", "- i", "1. j", "| t |", "| t | ", "## a", "# ."}

InitBlocks == InitOver(BlockVocab)

SpecBlocks == InitBlocks /\ [][FormatNext]_vars

\* _fix_code_block_language on one fenced block without a language tag, its
\* lines taken from CodeLines: a line for each signature of
\* determine_language, in its order, and a line that matches none
CodeLines ==
    {"def f():", "let a", "<a/>", "color: red", "SELECT 1", "package p",
     "std::", "git x", "[1]", "x"}

CodeTexts ==
    {FENCE \o "\n" \o body \o "\n" \o FENCE : body \in TextsUpTo(CodeLines, MaxLines - 1)}

InitLanguage == InitAt(CodeTexts, "code_block_language")

SpecLanguage == InitLanguage /\ [][FixCodeBlockLanguage]_vars

\* _fix_bare_urls on one line that holds a URL: bare, in parentheses, in
\* angle brackets, as the target of a link, in the text of a link
Urls == {"http://u", "https://u"}
UrlPrefixes == {"", "x ", "(", "<", "[", "[a ", "[t]("}
UrlSuffixes == {"", " y", ")", ">", "]", "](v)", "](http://u)"}

UrlTexts == {p \o u \o q : p \in UrlPrefixes, u \in Urls, q \in UrlSuffixes}

InitUrls == InitAt(UrlTexts, "bare_urls")

SpecUrls == InitUrls /\ [][FixBareUrls]_vars

\* _fix_multiple_blank_lines on texts of blank lines and lines of text, long
\* enough for a run of two blank lines and a run of three in one text
BlankVocab == {"", "x"}

InitBlankLines == InitAt(TextsUpTo(BlankVocab, MaxLines + 3), "multiple_blank_lines")

SpecBlankLines == InitBlankLines /\ [][FixMultipleBlankLines]_vars

\* _fix_heading_punctuation on texts of headings and other lines that end
\* with and without punctuation; a line has no trailing whitespace at this
\* statement
PunctuationVocab == {"x", "x.", "# a", "# a.", "## a!", "# a..", "#b c.", "#b."}

InitPunctuation == InitAt(TextsUpTo(PunctuationVocab, MaxLines - 1), "heading_punctuation")

SpecPunctuation == InitPunctuation /\ [][FixHeadingPunctuation]_vars

\* the duplicate heading pass on its own: documents of 1 to MaxLines + 2
\* headings with a blank line between them, as the passes before it leave
\* them (one level-1 heading at most, no level skipped): texts that differ in
\* case only, a named entity, generic texts at levels 2, 4 and 5
MaxHeadings == MaxLines + 2

DuplicateVocab ==
    {"# t", "## a", "## A", "### Class:f", "#### Example", "##### Example", "## Usage"}

Paragraphs(ls) == Join([k \in 1..(2 * Len(ls) - 1) |-> IF k % 2 = 1 THEN ls[(k + 1) \div 2] ELSE ""])

DuplicateTexts(n) ==
    {t \in UNION {{Paragraphs(ls) : ls \in [1..k -> DuplicateVocab]} : k \in 1..n} :
        _fix_heading_increment(_fix_multiple_h1(t)) = t}

InitDuplicates == InitAt(DuplicateTexts(MaxHeadings), "duplicate_headings")

SpecDuplicates == InitDuplicates /\ [][FixDuplicateHeadings \/ FixDuplicateHeadingsRaises]_vars

\* the heading increment pass on its own: texts of plain lines and headings
\* of levels 1 to 5
IncrementVocab == {"x", "# a", "## b", "### c", "#### d", "##### e"}

InitIncrement == InitAt(TextsUpTo(IncrementVocab, MaxLines), "heading_increment")

SpecIncrement == InitIncrement /\ [][FixHeadingIncrement]_vars

\* _format_content as one function: [raised, text]. A statement
\* "content = self._fix_xxx(content)" takes the value the statement before it
\* has assigned: Assign(fix, cs) is the set of the values of content behind the
\* statement for the values cs in front of it
FormatContent(text) ==
    LET Assign(fix(_), cs) == {fix(t) : t \in cs}
        after == Assign(_fix_code_block_language, Assign(_fix_code_block_spacing,
                 Assign(_fix_bare_urls, Assign(_fix_heading_punctuation,
                 Assign(_fix_trailing_whitespace, Assign(_fix_table_spacing,
                 Assign(_fix_list_spacing, Assign(_fix_heading_spacing,
                 Assign(_fix_heading_increment, Assign(_fix_multiple_h1, {text}))))))))))
        d == CHOOSE r \in {DuplicateHeadings(t) : t \in after} : TRUE
    IN  IF d.raised THEN [raised |-> TRUE, text |-> text]
        ELSE [raised |-> FALSE,
              text |-> CHOOSE r \in Assign(EnsureFinalNewline,
                                   Assign(_fix_multiple_blank_lines, {d.text})) : TRUE]

----------------------------------------------------------------------------
(* The batch driver: format_directory and format_file over a file system.  *)

\* the number of files of the directory tree
MaxFiles == 3

\* the tree: the directory handed to format_directory and one subdirectory
Root == "d"
SubDir == "s"
Names == {"a.md", "B.MD", "n.txt"}

\* what the files hold: a text _format_content rewrites, and one it raises on
FileTexts == {"# a", "## a\n## a"}

\* os.path.join(root, file)
PathJoin(root, file) == root \o "/" \o file

Dirs == {Root, PathJoin(Root, SubDir)}
AllPaths == {PathJoin(d, n) : d \in Dirs, n \in Names}

\* what os.walk yields for a directory: its subdirectories and its files
SubDirsOf(dir) == IF dir = Root THEN <<PathJoin(Root, SubDir)>> ELSE <<>>
FilesOf(fs, dir) == {n \in Names : PathJoin(dir, n) \in DOMAIN fs}

\* IsMarkdownName without lower(): the extension is compared case-sensitively
IsMarkdownNameCaseSensitive(file) == EndsWith(file, ".md")

\* file.lower().endswith('.md')
IsMarkdownName(file) == EndsWith(Lower(file), ".md")

InitBatch ==
    /\ input = "" /\ content = "" /\ pc = "idle" /\ call = 1 /\ first = ""
    /\ \E paths \in SUBSET AllPaths :
          /\ Cardinality(paths) <= MaxFiles
          /\ files \in [paths -> FileTexts]
    /\ before = files
    /\ recursive \in BOOLEAN
    /\ results = <<>>
    /\ todo = <<Root>>
    /\ pending = {}
    /\ bpc = "walk"
    /\ cur = [root |-> "", path |-> "", content |-> "", formatted |-> ""]
    /\ failed = {}
    /\ FetchIdle

\* results[file_path] = value
Record(rs, path, value) ==
    [q \in DOMAIN rs \cup {path} |-> IF q = path THEN value ELSE rs[q]]

\* AfterFileError without the handler of format_file: the exception reaches the
\* handler of format_directory (lines 82-83), which ends the walk
AfterFileErrorPropagates(rs, path) == [results |-> rs, bpc |-> "returned"]

\* an exception inside the try block of format_file: the handler (lines 56-58)
\* logs it and returns False, which format_directory records at line 78
AfterFileError(rs, path) == [results |-> Record(rs, path, FALSE), bpc |-> "files"]

\* "for root, dirs, files in os.walk(directory_path)": the next directory, top down
WalkYield ==
    /\ bpc = "walk"
    /\ todo # <<>>
    /\ pending' = {[root |-> Head(todo), file |-> n] : n \in FilesOf(files, Head(todo))}
    /\ todo' = SubDirsOf(Head(todo)) \o Tail(todo)
    /\ bpc' = "files"
    /\ UNCHANGED <<files, before, recursive, results, cur, failed>>
    /\ UNCHANGED fmtVars
    /\ UNCHANGED fetchVars

\* os.walk is exhausted: return results
WalkEnd ==
    /\ bpc = "walk"
    /\ todo = <<>>
    /\ bpc' = "returned"
    /\ UNCHANGED <<files, before, recursive, results, todo, pending, cur, failed>>
    /\ UNCHANGED fmtVars
    /\ UNCHANGED fetchVars

\* "for file in files" with a file that is no markdown file (the listing order is the file system's)
LoopSkip ==
    /\ bpc = "files"
    /\ \E f \in pending :
          /\ ~IsMarkdownName(f.file)
          /\ pending' = pending \ {f}
    /\ UNCHANGED <<files, before, recursive, results, todo, bpc, cur, failed>>
    /\ UNCHANGED fmtVars
    /\ UNCHANGED fetchVars

\* "for file in files" with a markdown file: format_file(file_path) is entered
LoopFormat ==
    /\ bpc = "files"
    /\ \E f \in pending :
          /\ IsMarkdownName(f.file)
          /\ pending' = pending \ {f}
          /\ cur' = [root |-> f.root, path |-> PathJoin(f.root, f.file),
                     content |-> "", formatted |-> ""]
    /\ bpc' = "read"
    /\ UNCHANGED <<files, before, recursive, results, todo, failed>>
    /\ UNCHANGED fmtVars
    /\ UNCHANGED fetchVars

\* the end of "for file in files", then "if not recursive: break"
LoopEnd ==
    /\ bpc = "files"
    /\ pending = {}
    /\ bpc' = IF recursive THEN "walk" ELSE "returned"
    /\ UNCHANGED <<files, before, recursive, results, todo, pending, cur, failed>>
    /\ UNCHANGED fmtVars
    /\ UNCHANGED fetchVars

\* an exception in the try block of format_file, the file system left as fs
FileError(fs) ==
    /\ files' = fs
    /\ results' = AfterFileError(results, cur.path).results
    /\ bpc' = AfterFileError(results, cur.path).bpc
    /\ failed' = failed \cup {cur.path}
    /\ UNCHANGED <<before, recursive, todo, pending, cur>>
    /\ UNCHANGED fmtVars
    /\ UNCHANGED fetchVars

\* open(file_path, 'r') and f.read()
ReadOk ==
    /\ bpc = "read"
    /\ cur' = [cur EXCEPT !.content = files[cur.path]]
    /\ bpc' = "format"
    /\ UNCHANGED <<files, before, recursive, results, todo, pending, failed>>
    /\ UNCHANGED fmtVars
    /\ UNCHANGED fetchVars

\* the file cannot be opened or decoded
ReadFails ==
    /\ bpc = "read"
    /\ FileError(files)

\* formatted_content = self._format_content(content)
FormatOk ==
    /\ bpc = "format"
    /\ ~FormatContent(cur.content).raised
    /\ cur' = [cur EXCEPT !.formatted = FormatContent(cur.content).text]
    /\ bpc' = "open_write"
    /\ UNCHANGED <<files, before, recursive, results, todo, pending, failed>>
    /\ UNCHANGED fmtVars
    /\ UNCHANGED fetchVars

FormatRaises ==
    /\ bpc = "format"
    /\ FormatContent(cur.content).raised
    /\ FileError(files)

\* open(file_path, 'w') truncates the file
OpenWriteOk ==
    /\ bpc = "open_write"
    /\ files' = [files EXCEPT ![cur.path] = ""]
    /\ bpc' = "write"
    /\ UNCHANGED <<before, recursive, results, todo, pending, cur, failed>>
    /\ UNCHANGED fmtVars
    /\ UNCHANGED fetchVars

\* the file cannot be opened for writing: it is not truncated
OpenWriteFails ==
    /\ bpc = "open_write"
    /\ FileError(files)

\* f.write(formatted_content) and the close of the file; return True
WriteOk ==
    /\ bpc = "write"
    /\ files' = [files EXCEPT ![cur.path] = cur.formatted]
    /\ results' = Record(results, cur.path, TRUE)
    /\ bpc' = "files"
    /\ UNCHANGED <<before, recursive, todo, pending, cur, failed>>
    /\ UNCHANGED fmtVars
    /\ UNCHANGED fetchVars

\* the write fails (disk full, I/O error) after the truncation: a proper
\* prefix of the text has reached the file
WriteFails ==
    /\ bpc = "write"
    /\ \E k \in 0..(Len(cur.formatted) - 1) :
          FileError([files EXCEPT ![cur.path] = Upto(cur.formatted, k)])

BatchNext ==
    \/ WalkYield
    \/ WalkEnd
    \/ LoopSkip
    \/ LoopFormat
    \/ LoopEnd
    \/ ReadOk
    \/ ReadFails
    \/ FormatOk
    \/ FormatRaises
    \/ OpenWriteOk
    \/ OpenWriteFails
    \/ WriteOk
    \/ WriteFails

SpecBatch == InitBatch /\ [][BatchNext]_vars

----------------------------------------------------------------------------
(* GitHubFetcher._make_request: the retry loop, one action per outcome of  *)
(* an iteration. A response is "ok" (raise_for_status passes), "error"     *)
(* (raise_for_status raises HTTPError), "rate_limited" (status 403 with    *)
(* 'rate limit' in the text) or "malformed" (a rate-limit header that      *)
(* int() rejects).                                                         *)

\* the largest value of the argument `retries` (the callers use the default, 3)
MaxRetries == 3

\* _make_request is called
InitFetch ==
    /\ input = "" /\ content = "" /\ pc = "idle" /\ call = 1 /\ first = ""
    /\ BatchIdle
    /\ retries \in 0..MaxRetries
    /\ token \in BOOLEAN
    /\ retry_count = 0
    /\ response = "unbound"
    /\ rpc = "start"
    /\ requests_sent = 0

\* the url is built, the wait for a nearly exhausted rate limit is over,
\* retry_count = 0
EnterLoop ==
    /\ rpc = "start"
    /\ rpc' = "loop"
    /\ retry_count' = 0
    /\ UNCHANGED <<retries, token, response, requests_sent>>
    /\ UNCHANGED <<fmtVars, batchVars>>

\* "while retry_count <= retries" holds and requests.get is called
Request ==
    /\ rpc = "loop"
    /\ retry_count <= retries
    /\ requests_sent' = requests_sent + 1
    /\ UNCHANGED <<retries, token>>
    /\ UNCHANGED <<fmtVars, batchVars>>

\* the except clause: retry_count += 1, re-raise when the retries are used
\* up, sleep and go on otherwise
Caught ==
    /\ retry_count' = retry_count + 1
    /\ rpc' = IF retry_count + 1 > retries THEN "raised" ELSE "loop"

\* requests.get raises a RequestException (no response is assigned)
RequestFails ==
    /\ Request
    /\ response' = response
    /\ Caught

\* the response passes raise_for_status and is returned
RequestSucceeds ==
    /\ Request
    /\ response' = "ok"
    /\ rpc' = "returned"
    /\ retry_count' = retry_count

\* raise_for_status raises HTTPError, which the except clause catches
RequestHttpError ==
    /\ Request
    /\ response' = "error"
    /\ Caught

\* a rate-limit response whose wait is counted as no retry
RequestRateLimitedUncounted ==
    /\ Request
    /\ response' = "rate_limited"
    /\ IF ~token
       THEN rpc' = "raised" /\ retry_count' = retry_count
       ELSE \E waits \in BOOLEAN :
                IF waits THEN rpc' = "loop" /\ retry_count' = retry_count ELSE Caught

\* a rate-limit response: ValueError without a token; with a token and a
\* reset time ahead, sleep, retry_count += 1 and continue; with a reset time
\* that has passed, raise_for_status raises HTTPError for the 403
RequestRateLimited ==
    /\ Request
    /\ response' = "rate_limited"
    /\ IF ~token
       THEN rpc' = "raised" /\ retry_count' = retry_count
       ELSE \E waits \in BOOLEAN :
                IF waits THEN rpc' = "loop" /\ retry_count' = retry_count + 1 ELSE Caught

\* int() raises ValueError on a rate-limit header; the except clause does
\* not catch it
RequestMalformed ==
    /\ Request
    /\ response' = "malformed"
    /\ rpc' = "raised"
    /\ retry_count' = retry_count

\* the loop is left with retry_count > retries: response.raise_for_status()
\* and return response behind the loop
LoopExit ==
    /\ rpc = "loop"
    /\ retry_count > retries
    /\ rpc' = IF response = "ok" THEN "returned" ELSE "raised"
    /\ UNCHANGED <<retries, token, retry_count, response, requests_sent>>
    /\ UNCHANGED <<fmtVars, batchVars>>

FetchNext ==
    \/ EnterLoop
    \/ RequestFails
    \/ RequestSucceeds
    \/ RequestHttpError
    \/ RequestRateLimited
    \/ RequestMalformed
    \/ LoopExit

SpecFetch == InitFetch /\ [][FetchNext]_vars

\* the method is one thread of control: it goes on until it returns or raises
SpecFetchFair == SpecFetch /\ WF_vars(FetchNext)

----------------------------------------------------------------------------
(* The properties of the normalizer (specification Spec).                  *)

\* a heading as the specification defines it: one or more '#' followed by a space
IsHeading(line) == HashRun(line) >= 1 /\ LitAt(line, HashRun(line) + 1, " ")

HeadingsOf(text) == SelectSeq(Split(text), IsHeading)

\* the normalized text of a heading: trimmed, case-insensitive
NormalizedText(line) == Lower(Strip(From(line, HashRun(line))))

\* consecutive headings never go down more than one level
IncrementOk(text) ==
    LET hs == HeadingsOf(text)
    IN  \A k \in 1..(Len(hs) - 1) : HashRun(hs[k + 1]) <= HashRun(hs[k]) + 1

\* the k-th smallest element of a set of numbers
Nth(S, k) == CHOOSE i \in S : Cardinality({j \in S : j <= i}) = k

\* the positions of the fence delimiter lines of a text
FenceIdx(lines) == {i \in 1..Len(lines) : StartsWith(lines[i], FENCE)}

\* the lines strictly between the k-th pair of fence delimiters
InsideFence(lines, k) ==
    SubSeq(lines, Nth(FenceIdx(lines), 2 * k - 1) + 1, Nth(FenceIdx(lines), 2 * k) - 1)

\* C1: idempotence: normalizing the output of a normalization returns it
\* unchanged (and in particular returns at all).
Idempotent ==
    (call = 2 /\ pc \in {"done", "raised"}) => (pc = "done" /\ content = first)

\* C2: _format_content never raises: no run of the pipeline ends in an exception.
NeverRaises == pc # "raised"

\* C3: single top-level heading: the returned text holds at most one line
\* that starts with a single '#' followed by a space.
SingleTopLevelHeading ==
    pc = "done" =>
        LET lines == Split(content)
        IN  Cardinality({i \in 1..Len(lines) : StartsWith(lines[i], "# ")}) <= 1

\* C4: heading increment: in the returned text the level of every heading is
\* at most the level of the heading before it plus one.
HeadingIncrement == pc = "done" => IncrementOk(content)

\* C4 witness: a text whose headings jump by more than one level has been
\* normalized and its headings are in the output.
HeadingIncrementWitness ==
    /\ pc = "done"
    /\ call = 1
    /\ ~IncrementOk(input)
    /\ Len(HeadingsOf(content)) >= 2

\* C5: no duplicate headings: no two headings of the returned text have the
\* same normalized text.
NoDuplicateHeadings ==
    pc = "done" =>
        LET hs == HeadingsOf(content)
        IN  \A j, k \in 1..Len(hs) : j # k => NormalizedText(hs[j]) # NormalizedText(hs[k])

\* C6: fence integrity: the returned text has as many fence delimiter lines
\* as the input, and the lines between each pair of delimiters are those of
\* the input.
FenceIntegrity ==
    (pc = "done" /\ call = 1) =>
        LET a == Split(input)
            b == Split(content)
        IN  /\ Cardinality(FenceIdx(a)) = Cardinality(FenceIdx(b))
            /\ \A k \in 1..(Cardinality(FenceIdx(a)) \div 2) :
                   InsideFence(a, k) = InsideFence(b, k)

\* C7: trailing newline: the returned text ends with exactly one newline.
SingleTrailingNewline ==
    pc = "done" => (EndsWith(content, "\n") /\ ~EndsWith(content, "\n\n"))

\* C7 witness: a text of newlines only has been normalized to a single newline.
SingleTrailingNewlineWitness ==
    /\ pc = "done"
    /\ call = 1
    /\ input = "\n\n"
    /\ content = "\n"

\* the lines of a returned text, its final newline put aside
LinesOf(text) == Split(IF EndsWith(text, "\n") THEN Upto(text, Len(text) - 1) ELSE text)

\* line i of lines exists and is blank
BlankAt(lines, i) == i \in 1..Len(lines) /\ ~NonBlank(lines[i])

\* exactly one blank line precedes line i, unless it is the first line
OneBlankBefore(lines, i) ==
    i > 1 => (BlankAt(lines, i - 1) /\ ~BlankAt(lines, i - 2))

\* exactly one blank line follows line i, unless it is the last line
OneBlankAfter(lines, i) ==
    i < Len(lines) => (BlankAt(lines, i + 1) /\ ~BlankAt(lines, i + 2))

\* C11: heading spacing: in the returned text every heading line is preceded
\* by exactly one blank line (unless it is the first line) and followed by
\* exactly one blank line (unless it is the last line).
HeadingSpacing ==
    pc = "done" =>
        LET lines == LinesOf(content)
        IN  \A i \in 1..Len(lines) :
                IsHeading(lines[i]) => (OneBlankBefore(lines, i) /\ OneBlankAfter(lines, i))

----------------------------------------------------------------------------
(* The properties of the fenced code blocks (specification SpecFences).    *)

\* the opening and the closing fences of a text, told apart as
\* _fix_code_block_spacing tells them apart: a line that starts with a fence
\* opens a block, the next line that is nothing but a fence closes it
RECURSIVE FenceScan(_, _, _, _, _)
FenceScan(lines, i, in_code_block, open, close) ==
    IF i > Len(lines) THEN [open |-> open, close |-> close]
    ELSE IF StartsWith(lines[i], FENCE) /\ ~in_code_block
         THEN FenceScan(lines, i + 1, TRUE, open \cup {i}, close)
         ELSE IF Strip(lines[i]) = FENCE /\ in_code_block
              THEN FenceScan(lines, i + 1, FALSE, open, close \cup {i})
              ELSE FenceScan(lines, i + 1, in_code_block, open, close)

FencesOf(lines) == FenceScan(lines, 1, FALSE, {}, {})

\* the positions of the lines inside the fenced code blocks of a text
InBlock(lines) ==
    LET f == FencesOf(lines)
    IN  {i \in 1..Len(lines) :
            /\ i \notin f.open \cup f.close
            /\ \E o \in f.open : o < i /\ \A c \in f.close : (c > o => c > i)}

\* a occurs in b as a subsequence
RECURSIVE IsSubseq(_, _)
IsSubseq(a, b) ==
    IF a = <<>> THEN TRUE
    ELSE IF b = <<>> THEN FALSE
    ELSE IF a[1] = b[1] THEN IsSubseq(Tail(a), Tail(b))
    ELSE IsSubseq(a, Tail(b))

\* the lines of the blocks of a text that no pass is meant to rewrite
BlockText(lines) ==
    LET in == InBlock(lines)
        keep == {i \in in : NonBlank(lines[i]) /\ ~StartsWith(lines[i], "#")
                                /\ ~Contains(lines[i], "http")}
    IN  [k \in 1..Cardinality(keep) |-> lines[Nth(keep, k)]]

\* C12: code-fence spacing: in the returned text a blank line stands
\* immediately before every opening fence (unless it is the first line) and
\* immediately after every closing fence (unless it is the last line), and
\* the lines of the blocks of the input are in the output in their order.
CodeFenceSpacing ==
    (pc = "done" /\ call = 1) =>
        LET lines == LinesOf(content)
            f == FencesOf(lines)
        IN  /\ \A i \in f.open : i > 1 => BlankAt(lines, i - 1)
            /\ \A i \in f.close : i < Len(lines) => BlankAt(lines, i + 1)
            /\ IsSubseq(BlockText(Split(input)), SelectSeq(lines, NonBlank))

----------------------------------------------------------------------------
(* The properties of lists and tables (specification SpecBlocks).          *)

\* every contiguous run of the lines that satisfy In has a blank line before
\* its first line and after its last line (the first and the last line of
\* the text need none)
RunsPadded(lines, In(_)) ==
    \A i \in 1..Len(lines) :
        In(lines[i]) =>
            /\ i > 1 => (In(lines[i - 1]) \/ BlankAt(lines, i - 1))
            /\ i < Len(lines) => (In(lines[i + 1]) \/ BlankAt(lines, i + 1))

\* C13: list spacing: in the returned text every contiguous run of list items
\* has a blank line before its first item and after its last item, also when
\* the run is directly followed by a line of text, and for every later run.
ListSpacing == pc = "done" => RunsPadded(LinesOf(content), IsListItem)

\* a line of a table: it starts and ends with '|', trailing whitespace put aside
IsTableLine(line) == IsTableRow(RStrip(line))

\* line pairs <<a, b>> that are consecutive lines of a text
Adjacent(lines) == {<<lines[i], lines[i + 1]>> : i \in 1..(Len(lines) - 1)}

\* C14: table spacing: in the returned text every contiguous table has a blank
\* line before its first line and after its last line, and two consecutive
\* lines of a table of the input are still consecutive.
TableSpacing ==
    (pc = "done" /\ call = 1) =>
        /\ RunsPadded(LinesOf(content), IsTableLine)
        /\ \A p \in Adjacent(Split(input)) :
               (IsTableLine(p[1]) /\ IsTableLine(p[2])) =>
                   <<RStrip(p[1]), RStrip(p[2])>> \in Adjacent(LinesOf(content))

----------------------------------------------------------------------------
(* The spacing passes and the fenced code blocks (specification Spec).     *)

\* the lines between an opening fence and its matching closing fence
FencedLines(text) ==
    LET lines == Split(text)
        f == FencesOf(lines)
        in == {i \in 1..Len(lines) :
                  \E o \in f.open, c \in f.close :
                      /\ o < i /\ i < c
                      /\ \A k \in f.open \cup f.close : ~(o < k /\ k < c)}
    IN  [k \in 1..Cardinality(in) |-> lines[Nth(in, k)]]

\* the positions of _format_content at which a spacing pass runs next
SpacingPasses == {"heading_spacing", "list_spacing", "table_spacing", "code_block_spacing"}

\* a step of a spacing pass leaves the lines of the closed blocks as they are
SpacingStepSkipsFencedLines ==
    pc \in SpacingPasses => FencedLines(content') = FencedLines(content)

\* C15: inside a fenced code block no heading, list or table classification
\* is applied: a spacing pass inserts no blank line and changes no line
\* between an opening fence and its matching closing fence.
SpacingSkipsFencedLines == [][SpacingStepSkipsFencedLines]_vars

----------------------------------------------------------------------------
(* Language inference (specification SpecLanguage).                        *)

\* the languages in the order in which their signatures are to be tried
LanguageOrder ==
    <<"python", "javascript", "html", "css", "sql", "java", "cpp", "bash", "json">>

\* the signature of the k-th language matches s
Signature(k, s) ==
    CASE k = 1 -> LooksPython(s)
      [] k = 2 -> LooksJavascript(s)
      [] k = 3 -> LooksHtml(s)
      [] k = 4 -> LooksCss(s)
      [] k = 5 -> LooksSql(s)
      [] k = 6 -> LooksJava(s)
      [] k = 7 -> LooksCpp(s)
      [] k = 8 -> LooksBash(s)
      [] k = 9 -> LooksJson(s)

\* the first language of the order whose signature matches, "text" when none does
FirstLanguage(s) ==
    LET hits == {k \in 1..Len(LanguageOrder) : Signature(k, s)}
    IN  IF hits = {} THEN "text" ELSE LanguageOrder[Nth(hits, 1)]

\* the content of a one-block text: what stands between its two fence lines
BlockBody(text) == LET lines == Split(text) IN Join(SubSeq(lines, 2, Len(lines) - 1))

\* C16: language inference: _fix_code_block_language sets the opening fence
\* of a block without language tag to the first language whose signature
\* matches the content of the block, to 'text' when none matches, and changes
\* nothing else of the block.
LanguageInference ==
    pc = "duplicate_headings" =>
        content = FENCE \o FirstLanguage(BlockBody(input)) \o "\n"
                      \o BlockBody(input) \o "\n" \o FENCE

----------------------------------------------------------------------------
(* Bare URLs (specification SpecUrls).                                     *)

\* what stands before and after the first URL of a line
BeforeUrl(text) == Upto(text, Find(text, "http", 1) - 1)
AfterUrl(text) ==
    LET k == Find(text, "http", 1)
    IN  From(text, k - 1 + (IF LitAt(text, k, "https://u") THEN 9 ELSE 8))

\* the URL stands inside an autolink <url>
InAutolink(text) == EndsWith(BeforeUrl(text), "<") /\ StartsWith(AfterUrl(text), ">")

\* the URL is the target of a link [text](url)
IsLinkTarget(text) == EndsWith(BeforeUrl(text), "](") /\ StartsWith(AfterUrl(text), ")")

\* the URL is part of the text of a link [... url ...](target)
InLinkText(text) == StartsWith(BeforeUrl(text), "[") /\ ~Contains(BeforeUrl(text), "]")
                        /\ Contains(AfterUrl(text), "](")

\* C17: _fix_bare_urls wraps a URL only when it is bare: a URL that is the
\* target or part of the text of a markdown link, or that stands inside an
\* autolink <url>, is left unchanged (so no URL is wrapped a second time).
WrapsBareUrlsOnly ==
    pc = "code_block_spacing" =>
        ((InAutolink(input) \/ IsLinkTarget(input) \/ InLinkText(input)) => content = input)

----------------------------------------------------------------------------
(* The inline fixups and the tagged blocks (specification SpecFences).     *)

\* an opening fence with a language tag: the fence, then word characters only
IsTagged(line) ==
    StartsWith(line, FENCE) /\ WordRun(line, 4) >= 1 /\ 3 + WordRun(line, 4) = Len(line)

\* the closed blocks of a text whose opening fence has a language tag, each
\* one the sequence of its lines, both fences included
TaggedBlocks(text) ==
    LET lines == Split(text)
        f == FencesOf(lines)
        pairs == {p \in f.open \X f.close :
                     /\ p[1] < p[2]
                     /\ \A k \in f.open \cup f.close : ~(p[1] < k /\ k < p[2])}
    IN  {SubSeq(lines, p[1], p[2]) : p \in {q \in pairs : IsTagged(lines[q[1]])}}

\* the lines of block are consecutive lines of lines
Occurs(block, lines) ==
    \E k \in 1..(Len(lines) - Len(block) + 1) : SubSeq(lines, k, k + Len(block) - 1) = block

\* the positions of _format_content at which an inline fixup runs next
InlineFixups == {"bare_urls", "code_block_language"}

\* a step of an inline fixup leaves every tagged block as it is
InlineFixupStepSkipsTaggedBlocks ==
    pc \in InlineFixups => \A b \in TaggedBlocks(content) : Occurs(b, Split(content'))

\* C18: the inline fixups (bare-URL wrapping, language inference) modify no
\* line inside a fenced code block whose opening fence has a language tag,
\* nor the fences of that block.
InlineFixupsSkipTaggedBlocks == [][InlineFixupStepSkipsTaggedBlocks]_vars

----------------------------------------------------------------------------
(* Trailing whitespace (specification SpecBlocks).                         *)

\* C19: in the returned text no line ends with a space or a tab, also after
\* the passes that rewrite heading lines.
NoTrailingWhitespace ==
    pc = "done" =>
        LET lines == Split(content)
        IN  \A i \in 1..Len(lines) : ~EndsWith(lines[i], " ") /\ ~EndsWith(lines[i], "\t")

----------------------------------------------------------------------------
(* Blank-line collapsing (specification SpecBlankLines).                   *)

\* the lengths of the maximal runs of blank lines of a text, in their order
RECURSIVE BlankRunsFrom(_, _, _, _)
BlankRunsFrom(lines, i, run, acc) ==
    IF i > Len(lines) THEN (IF run > 0 THEN Append(acc, run) ELSE acc)
    ELSE IF lines[i] = "" THEN BlankRunsFrom(lines, i + 1, run + 1, acc)
    ELSE BlankRunsFrom(lines, i + 1, 0, IF run > 0 THEN Append(acc, run) ELSE acc)

BlankRuns(text) == BlankRunsFrom(LinesOf(text), 1, 0, <<>>)

\* the lengths of the maximal runs of newline characters of a text, in their order
RECURSIVE NewlineRunsFrom(_, _, _)
NewlineRunsFrom(s, i, acc) ==
    IF i > Len(s) THEN acc
    ELSE LET n == NewlineRun(s, i) IN
         IF n >= 1 THEN NewlineRunsFrom(s, i + n, Append(acc, n))
         ELSE NewlineRunsFrom(s, i + 1, acc)

NewlineRuns(text) == NewlineRunsFrom(text, 1, <<>>)

NonEmpty(line) == line # ""

\* the runs of b are the runs of a, those of least or more cut down to most
RunsCollapsed(a, b, least, most) ==
    /\ Len(b) = Len(a)
    /\ \A k \in 1..Len(a) : b[k] = (IF a[k] >= least THEN most ELSE a[k])

\* C20 as stated: a run of three or more consecutive blank lines is rewritten
\* to exactly two blank lines, and a run of one or two blank lines is left as
\* it is.
BlankLineRunsCollapsed ==
    pc = "final_newline" => RunsCollapsed(BlankRuns(input), BlankRuns(content), 3, 2)

\* C20 as amended: a run of three or more consecutive newline characters is
\* rewritten to exactly two newline characters, a run of one or two newline
\* characters is left as it is, and nothing else of the text changes.
NewlineRunsCollapsed ==
    pc = "final_newline" =>
        /\ RunsCollapsed(NewlineRuns(input), NewlineRuns(content), 3, 2)
        /\ SelectSeq(Split(content), NonEmpty) = SelectSeq(Split(input), NonEmpty)
        /\ StartsWith(content, "\n") = StartsWith(input, "\n")

\* C20 witness: a text with a run of two and a run of three newline characters
\* has been through the pass, which cut the second run down to two.
NewlineRunsCollapsedWitness ==
    /\ pc = "final_newline"
    /\ input = "x\n\nx\n\n\nx"
    /\ content = "x\n\nx\n\nx"

----------------------------------------------------------------------------
(* Heading punctuation (specification SpecPunctuation).                    *)

\* the last character of new has been removed from old, and it is punctuation
DroppedPunctuation(old, new) ==
    /\ old # ""
    /\ new = Upto(old, Len(old) - 1)
    /\ Char(old, Len(old)) \in {".", ",", ";", ":", "!", "?"}

\* C21: the heading-punctuation pass removes at most one trailing character
\* per line, a punctuation character, and only from heading lines (one or
\* more '#' followed by a space); every other line is left unchanged.
PunctuationFromHeadingsOnly ==
    pc = "bare_urls" =>
        LET old == Split(input)
            new == Split(content)
        IN  /\ Len(new) = Len(old)
            /\ \A i \in 1..Len(old) :
                   \/ new[i] = old[i]
                   \/ IsHeading(old[i]) /\ DroppedPunctuation(old[i], new[i])

----------------------------------------------------------------------------
(* The order of the passes (specification Spec).                           *)

\* the component a statement of _format_content belongs to: 1 the heading
\* hierarchy fixer, 2 the duplicate heading resolver, 3 the spacing
\* normalizer, 4 the whitespace and punctuation cleaner, 5 the inline fixups
Component(p) ==
    CASE p \in {"multiple_h1", "heading_increment"} -> 1
      [] p = "duplicate_headings" -> 2
      [] p \in SpacingPasses -> 3
      [] p \in {"trailing_whitespace", "heading_punctuation", "multiple_blank_lines",
                "final_newline"} -> 4
      [] p \in InlineFixups -> 5

\* the statements of _format_content in the order in which they run
PassSequence ==
    <<"multiple_h1", "heading_increment", "heading_spacing", "list_spacing",
      "table_spacing", "trailing_whitespace", "heading_punctuation", "bare_urls",
      "code_block_spacing", "code_block_language", "duplicate_headings",
      "multiple_blank_lines", "final_newline">>

Passes == {PassSequence[k] : k \in 1..Len(PassSequence)}

\* a step from one pass to the next one of the same call goes on in the same
\* component or in a later one, and from the hierarchy fixer on to the
\* duplicate heading resolver only
ComponentOrderStep ==
    (pc \in Passes /\ pc' \in Passes /\ call' = call) =>
        /\ Component(pc) <= Component(pc')
        /\ Component(pc) = 1 => Component(pc') \in {1, 2}

\* C22 as stated: the passes run in the order heading hierarchy fixer,
\* duplicate heading resolver, spacing normalizer, whitespace and punctuation
\* cleaner, inline fixups.
ComponentOrder == [][ComponentOrderStep]_vars

\* a step that leaves the k-th statement goes to the next one of
\* PassSequence; the last one returns, the duplicate resolver may raise
PassSequenceStep ==
    \A k \in 1..Len(PassSequence) :
        (pc = PassSequence[k] /\ pc' # pc) =>
            \/ k < Len(PassSequence) /\ pc' = PassSequence[k + 1]
            \/ k = Len(PassSequence) /\ pc' = "done"
            \/ pc = "duplicate_headings" /\ pc' = "raised"

\* C22 as amended: the passes run in the order of PassSequence: the duplicate
\* heading resolver runs after the hierarchy fixer, the spacing passes, the
\* trailing-whitespace and punctuation passes and the inline fixups, and
\* before the blank-line collapsing and the final newline.
PassOrder == [][PassSequenceStep]_vars

\* C22 witness: a call has run through all passes; the duplicate heading
\* resolver has turned '#b c' into a heading after the heading-spacing pass
\* put a blank line in front of it and after _fix_multiple_h1 was done.
PassOrderWitness ==
    /\ pc = "done"
    /\ call = 1
    /\ input = "# a\n#b c"
    /\ content = "# a\n\n# b c\n"

----------------------------------------------------------------------------
(* Headings that repeat the document title (specification Spec).           *)

\* the positions of the level-1 heading lines of a text
TitleLines(lines) == {i \in 1..Len(lines) : StartsWith(lines[i], "# ")}

\* the text of a heading line, trimmed
HeadingText(line) == Strip(From(line, HashRun(line)))

\* the headings of the lines whose heading text is t
HeadingsNamed(lines, from, t) ==
    {i \in from..Len(lines) : IsHeading(lines[i]) /\ HeadingText(lines[i]) = t}

\* C23: a text with a document title has been normalized: the title line is
\* in the output, once and as it was; every later heading of the input with
\* the text of the title is in the output as 'About <title>', below level 1;
\* no other heading of the output has the text of the title.
TitleDisambiguated ==
    (pc = "done" /\ call = 1 /\ TitleLines(Split(input)) # {}) =>
        LET old == Split(input)
            new == Split(content)
            t == Nth(TitleLines(old), 1)
            title == HeadingText(old[t])
            about == "About " \o title
        IN  title # "" =>
                /\ Cardinality({i \in 1..Len(new) : new[i] = "# " \o title}) = 1
                /\ \A i \in HeadingsNamed(new, 1, title) : new[i] = "# " \o title
                /\ Cardinality(HeadingsNamed(new, 1, about))
                       >= Cardinality(HeadingsNamed(old, t + 1, title))
                /\ \A i \in HeadingsNamed(new, 1, about) : HashRun(new[i]) >= 2

----------------------------------------------------------------------------
(* The order of the lines (specification Spec).                            *)

\* the lines of a text that are not blank
NonBlankLines(text) == SelectSeq(Split(text), NonBlank)

\* a line of the output stands for a line of the input: it is that line, or
\* that line with its trailing whitespace removed or its URLs wrapped, or a
\* rewritten '#' line, or a rewritten fence line
InPlace(old, new) ==
    \/ new = old
    \/ new = RStrip(old)
    \/ new = _fix_bare_urls(old)
    \/ HashRun(old) >= 1 /\ HashRun(new) >= 1
    \/ StartsWith(old, FENCE) /\ StartsWith(new, FENCE)

\* C24: line order: the non-blank lines of the returned text are the
\* non-blank lines of the input, as many and in the same order, each
\* unchanged or rewritten in place.
LineOrderPreserved ==
    (pc = "done" /\ call = 1) =>
        LET old == NonBlankLines(input)
            new == NonBlankLines(content)
        IN  /\ Len(new) = Len(old)
            /\ \A i \in 1..Len(old) : InPlace(old[i], new[i])

\* C24 witness: a text of three or more non-blank lines has been normalized;
\* the output has more lines than the input and a rewritten line.
LineOrderPreservedWitness ==
    /\ pc = "done"
    /\ call = 1
    /\ Len(NonBlankLines(input)) >= 3
    /\ Len(Split(content)) > Len(Split(input)) + 1
    /\ \E i \in 1..Len(NonBlankLines(input)) : NonBlankLines(content)[i] # NonBlankLines(input)[i]

----------------------------------------------------------------------------
(* The duplicate heading resolver (specification SpecDuplicates).          *)

\* the heading at line j encloses the heading at line i: it stands before it,
\* at a lower level, with no heading of its own or a lower level in between
Encloses(lines, j, i) ==
    /\ j < i
    /\ IsHeading(lines[j])
    /\ HashRun(lines[j]) < HashRun(lines[i])
    /\ \A k \in (j + 1)..(i - 1) : IsHeading(lines[k]) => HashRun(lines[k]) > HashRun(lines[j])

\* the lines of the headings of a level that enclose the heading at line i
EnclosingAt(lines, i, level) ==
    {j \in 1..(i - 1) : Encloses(lines, j, i) /\ HashRun(lines[j]) = level}

\* the number of headings up to line i with the trimmed text of line i
Occurrence(lines, i) ==
    Cardinality({j \in 1..i : IsHeading(lines[j]) /\ HeadingText(lines[j]) = HeadingText(lines[i])})

\* the heading at line i has a text that is not the title of the document
NotTheTitle(lines, i) ==
    \A j \in TitleLines(lines) : Lower(HeadingText(lines[j])) # Lower(HeadingText(lines[i]))

\* C25: the resolver has returned: every heading whose normalized text
\* (trimmed, case-insensitive) is that of an earlier heading has been rewritten.
CaseInsensitiveDuplicates ==
    pc = "multiple_blank_lines" =>
        LET old == Split(input)
            new == Split(content)
        IN  /\ Len(new) = Len(old)
            /\ \A i \in 1..Len(old) :
                   (/\ IsHeading(old[i])
                    /\ \E j \in 1..(i - 1) :
                           IsHeading(old[j]) /\ NormalizedText(old[j]) = NormalizedText(old[i]))
                       => HeadingText(new[i]) # HeadingText(old[i])

\* C26: the resolver has returned: a re-occurring generic heading that an
\* '### ' subsection encloses, at whatever level it stands, carries the
\* context: 'Example: <entity or subsection>' for an example-like text,
\* '<text> (<subsection>)' for a parameter-like one.
ContextAtEveryLevel ==
    pc = "multiple_blank_lines" =>
        LET old == Split(input)
            new == Split(content)
        IN  /\ Len(new) = Len(old)
            /\ \A i \in 1..Len(old) : \A j \in EnclosingAt(old, i, 3) :
                   LET text == HeadingText(old[i])
                       sub == HeadingText(old[j])
                       named == Contains(sub, "Function:") \/ Contains(sub, "Class:")
                   IN  (Occurrence(old, i) >= 2 /\ NotTheTitle(old, i)) =>
                           /\ Lower(text) \in ExampleLabels =>
                                  HeadingText(new[i]) =
                                      "Example: " \o (IF named THEN EntityName(sub) ELSE sub)
                           /\ Lower(text) \in ParameterLabels =>
                                  HeadingText(new[i]) = text \o " (" \o sub \o ")"

\* C27: the resolver has returned: the k-th heading (k >= 2) with a generic
\* text that no section and no subsection encloses is '<text> k'.
NumericFallback ==
    pc = "multiple_blank_lines" =>
        LET old == Split(input)
            new == Split(content)
            generic == ExampleLabels \cup TitleLabels \cup ParameterLabels
        IN  /\ Len(new) = Len(old)
            /\ \A i \in 1..Len(old) :
                   (/\ IsHeading(old[i])
                    /\ Lower(HeadingText(old[i])) \in generic
                    /\ Occurrence(old, i) >= 2
                    /\ NotTheTitle(old, i)
                    /\ EnclosingAt(old, i, 2) = {}
                    /\ EnclosingAt(old, i, 3) = {})
                       => HeadingText(new[i]) =
                              HeadingText(old[i]) \o " " \o ToString(Occurrence(old, i))

----------------------------------------------------------------------------
(* The heading increment pass (specification SpecIncrement).               *)

\* the levels of the headings of a text, in order
LevelsOf(text) == LET hs == HeadingsOf(text) IN [k \in 1..Len(hs) |-> HashRun(hs[k])]

\* the levels emitted for a sequence of levels when current_level follows the
\* emitted level: a level above current_level + 1 becomes current_level + 1
RECURSIVE TrackedLevels(_, _, _)
TrackedLevels(levels, k, current_level) ==
    IF k > Len(levels) THEN <<>>
    ELSE LET emitted == IF current_level > 0 /\ levels[k] > current_level + 1
                        THEN current_level + 1 ELSE levels[k]
         IN  <<emitted>> \o TrackedLevels(levels, k + 1, emitted)

\* C28: the heading increment pass has returned: the levels of the headings
\* are those of the input clamped to one more than the level emitted before
\* (levels 1, 3, 4 come out as 1, 2, 3).
EmittedLevelTracked ==
    pc = "heading_spacing" => LevelsOf(content) = TrackedLevels(LevelsOf(input), 1, 0)

----------------------------------------------------------------------------
(* Lines with a '#' that is not followed by a space (specification Spec).  *)

\* a line that starts with '#' characters not followed by a space
IsPlainHashLine(line) == HashRun(line) >= 1 /\ ~IsHeading(line)

\* the positions of the non-blank lines of a text
NonBlankIdx(lines) == {i \in 1..Len(lines) : NonBlank(lines[i])}

\* a line of plain text: no heading, no list item, no table row, no fence
IsPlainText(line) ==
    ~IsHeading(line) /\ ~IsListItem(line) /\ ~IsTableLine(line) /\ ~StartsWith(line, FENCE)

\* C29: a text has been normalized: every line that starts with '#'
\* characters not followed by a space is in the output as it was, and next
\* to the lines of plain text it was next to.
PlainHashLinesKept ==
    (pc = "done" /\ call = 1) =>
        LET old == Split(input)
            new == Split(content)
            o == NonBlankIdx(old)
            n == NonBlankIdx(new)
        IN  /\ Cardinality(n) = Cardinality(o)
            /\ \A k \in 1..Cardinality(o) :
                   IsPlainHashLine(old[Nth(o, k)]) =>
                       /\ new[Nth(n, k)] = old[Nth(o, k)]
                       /\ (k > 1 /\ Nth(o, k - 1) = Nth(o, k) - 1 /\ IsPlainText(old[Nth(o, k - 1)]))
                              => Nth(n, k - 1) = Nth(n, k) - 1
                       /\ (k < Cardinality(o) /\ Nth(o, k + 1) = Nth(o, k) + 1
                                              /\ IsPlainText(old[Nth(o, k + 1)]))
                              => Nth(n, k + 1) = Nth(n, k) + 1

----------------------------------------------------------------------------
(* The properties of the batch driver (specification SpecBatch).           *)

\* the names with a markdown extension, written out
MarkdownNames == {"a.md", "B.MD"}

\* the markdown files of the walked scope
ExpectedKeys ==
    {PathJoin(d, n) : d \in (IF recursive THEN Dirs ELSE {Root}), n \in MarkdownNames}
        \cap DOMAIN before

\* C8: batch failure isolation: when format_directory returns, every markdown
\* file of the walk has its own entry in the result, False exactly for the
\* files whose formatting failed.
BatchFailureIsolation ==
    bpc = "returned" =>
        \A p \in ExpectedKeys : p \in DOMAIN results /\ results[p] = (p \notin failed)

\* C8 witness: format_directory has returned two True entries and one False entry.
BatchFailureIsolationWitness ==
    /\ bpc = "returned"
    /\ Cardinality({p \in DOMAIN results : results[p]}) = 2
    /\ Cardinality({p \in DOMAIN results : ~results[p]}) = 1
    /\ failed # {}

\* C9: a file whose format_file call returned False holds what it held
\* before the call.
FailedFileUnchanged ==
    \A p \in DOMAIN results : ~results[p] => files[p] = before[p]

\* C10: format_directory processes exactly the markdown files of the walked
\* scope: they are the keys of the result, and every other file is unmodified.
ExactlyMarkdownFiles ==
    bpc = "returned" =>
        /\ DOMAIN results = ExpectedKeys
        /\ \A p \in DOMAIN files \ ExpectedKeys : files[p] = before[p]

\* C10 witness: a non-recursive run has returned with a markdown file of the
\* directory as key, while the tree also holds a markdown file in the
\* subdirectory, a file that is no markdown file and an upper-case extension.
ExactlyMarkdownFilesWitness ==
    /\ bpc = "returned"
    /\ ~recursive
    /\ PathJoin(Root, "B.MD") \in DOMAIN results
    /\ PathJoin(Root, "n.txt") \in DOMAIN files
    /\ PathJoin(PathJoin(Root, SubDir), "a.md") \in DOMAIN files

----------------------------------------------------------------------------
(* The retry loop of _make_request (specification SpecFetchFair).          *)

\* the call is over: a response has been returned or an exception raised
FetchOver == rpc \in {"returned", "raised"}

\* C30: _make_request calls requests.get at most retries + 1 times, and the
\* call comes to an end: it returns a response or raises.
RequestsBounded == [](requests_sent <= retries + 1) /\ <>FetchOver

\* C30 witness: with retries = 3, four requests have been sent, the last of
\* them a retry after a rate-limit wait, and the call has raised.
RequestsBoundedWitness ==
    /\ rpc = "raised"
    /\ retries = 3
    /\ token
    /\ requests_sent = 4
    /\ retry_count = 4
    /\ response = "rate_limited"

====
